---------------------------- MODULE Spec2Model ----------------------------
(***************************************************************************)
(* Model of the VisionDataComm front end: the capture view (FieldView),    *)
(* the shared dataset and goals held by App, and the chat panel.           *)
(*                                                                         *)
(* Every event handler and every continuation that runs after an await is  *)
(* one action.  React applies the state updates a handler queues and runs  *)
(* the effects whose dependencies changed before the next event is         *)
(* handled, so an action contains the handler, the updates and the effect  *)
(* re-runs.  Requests to the inference service are records in flight; the  *)
(* service's answer is chosen when the request completes.  A state update  *)
(* issued by a continuation whose component was unmounted is dropped by    *)
(* React.  A guidance or augmentation continuation does nothing but update *)
(* state, so those requests leave the model at unmount; an analysis        *)
(* continuation also issues a request, so it stays, marked live = FALSE.   *)
(*                                                                         *)
(* Images are identified by the number of the capture that produced them;  *)
(* an overlay is identified by the image it was generated from.  Strings   *)
(* that the code inspects (defectType) are sequences of characters.        *)
(***************************************************************************)
EXTENDS Integers, Sequences, FiniteSets, TLC

\* ---------------------------------------------------------------- bounds
MaxCaptures == 2    \* captures taken over a run
MaxItems == 2       \* items committed over a run
MaxScans == 2       \* guidance scans started over a run
MaxSends == 2       \* chat messages sent over a run
MaxJobs == 2        \* video handler runs started over a run
MaxPolls == 3       \* handles with done false the video service gives over a run
MaxStored == 3      \* items handed to onCapture over a run of the store alone

\* ------------------------------------------------------- strings of the code
Upper == <<"A","B","C","D","E","F","G","H","I","J","K","L","M",
           "N","O","P","Q","R","S","T","U","V","W","X","Y","Z">>
Lower == <<"a","b","c","d","e","f","g","h","i","j","k","l","m",
           "n","o","p","q","r","s","t","u","v","w","x","y","z">>

ToLowerChar(c) ==
    IF \E i \in 1..26 : Upper[i] = c
    THEN Lower[CHOOSE i \in 1..26 : Upper[i] = c]
    ELSE c

\* String.prototype.toLowerCase
ToLowerCase(s) == [i \in 1..Len(s) |-> ToLowerChar(s[i])]

\* String.prototype.includes
Includes(s, sub) ==
    \E k \in 0..(Len(s) - Len(sub)) :
        \A j \in 1..Len(sub) : s[k + j] = sub[j]

StrNone == <<"N","o","n","e">>
StrCrack == <<"C","r","a","c","k">>
StrSurfaceRust == <<"S","u","r","f","a","c","e"," ","R","u","s","t">>
StrUnknown == <<"U","n","k","n","o","w","n">>
StrRust == <<"r","u","s","t">>

\* ------------------------------------------------------------ analysis results
\* hasFields = FALSE is the object JSON.parse('{}') yields: every property of
\* it reads as undefined.
Null == [null |-> TRUE]

EmptyResult == [hasFields |-> FALSE, defectType |-> <<>>, isQualitySufficient |-> FALSE]

FallbackResult == [hasFields |-> TRUE, defectType |-> StrUnknown, isQualitySufficient |-> FALSE]

\* What the service can answer under the response schema.
SchemaResults ==
    [hasFields : {TRUE}, defectType : {StrNone, StrCrack, StrSurfaceRust},
     isQualitySufficient : BOOLEAN]

\* What a call of the inference service does: it throws, it answers without
\* text, or it answers with a body that follows the schema.
Throws == [throws |-> TRUE]
NoText == [noText |-> TRUE]
AnalyzeResponses == SchemaResults \cup {NoText, Throws}

\* analyzeFieldImage with its catch branch returning the parse of '{}'
AnalyzeFieldImageNoFallback(resp) ==
    IF resp \in {Throws, NoText} THEN EmptyResult ELSE resp

\* analyzeFieldImage: the parsed answer, the parse of '{}' when the answer has
\* no text, or the fallback when the call throws.
AnalyzeFieldImage(resp) ==
    IF resp = Throws THEN FallbackResult
    ELSE IF resp = NoText THEN EmptyResult
    ELSE resp

AnalyzeOutcomes == {AnalyzeFieldImage(resp) : resp \in AnalyzeResponses}

\* "defectType != None and isQualitySufficient == true", as the specification
\* words the condition for augmentation
Qualifies(r) == r.hasFields /\ r.defectType # StrNone /\ r.isQualitySufficient = TRUE

\* history only: what kind of outcome an analysis request returned
OutcomeKind(r) == IF Qualifies(r) THEN "qualifying" ELSE "other"

\* history only: the same, telling apart the requests whose call threw
ResponseKind(resp) ==
    IF resp = Throws THEN "failed" ELSE OutcomeKind(AnalyzeFieldImage(resp))

\* result.isQualitySufficient as a condition (undefined is falsy)
Truthy(r) == r.hasFields /\ r.isQualitySufficient

\* the condition with its comparison inverted (=== for !==)
ShouldAugmentInverted(r) ==
    (r.hasFields /\ r.defectType = StrNone) /\ Truthy(r)

\* the condition with || for &&
ShouldAugmentEither(r) ==
    (~r.hasFields \/ r.defectType # StrNone) \/ Truthy(r)

\* result.defectType !== 'None' && result.isQualitySufficient
\* (undefined !== 'None' is true)
ShouldAugment(r) ==
    (~r.hasFields \/ r.defectType # StrNone) /\ Truthy(r)

\* the status with the quality test dropped
ItemStatusAlwaysApproved(r) == "approved"

\* analysis.isQualitySufficient ? 'approved' : 'pending'
ItemStatus(r) == IF Truthy(r) THEN "approved" ELSE "pending"

\* item.analysis?.defectType.toLowerCase() throws a TypeError when defectType
\* is undefined.
ClassifyThrows(r) == ~r.hasFields

\* item.analysis?.defectType.toLowerCase().includes('rust')
IsRust(r) == Includes(ToLowerCase(r.defectType), StrRust)

\* ------------------------------------------------------------------ state
VARIABLES
    currentRole,        \* App: "FIELD" (FieldView mounted) or "DATA"
    capturedItems,      \* App: the dataset, a sequence of items
    goals,              \* App: [g1 |-> currentCount, g2 |-> currentCount]
    errorRaised,        \* an event handler has thrown an uncaught error
    capturedImage,      \* FieldView: 0 (null) or the capture's number
    annotatedImage,     \* FieldView: 0 (null) or the image the overlay is of
    isAnalyzing,        \* FieldView
    isAugmenting,       \* FieldView
    analysis,           \* FieldView: Null or an analysis result
    isGuidanceActive,   \* FieldView
    guidanceMessages,   \* FieldView: the published hint set
    intervalActive,     \* FieldView: the 3000 ms interval is scheduled
    nCaptures,          \* captures taken so far
    nScans,             \* guidance scans started so far
    scanReqs,           \* guidance requests in flight: the scans' numbers
    analyzeReqs,        \* analysis requests in flight: [img, live]
    augmentReqs,        \* augmentation requests in flight: the images' numbers
    augCount,           \* history: augmentation requests issued per capture
    outcomeOf,          \* history: the kind of analysis outcome returned per capture
    messages,           \* App: the chat log
    input,              \* ChatPanel: the text box
    isTyping,           \* ChatPanel: the awaiting-reply marker
    chatReqs,           \* chat requests in flight: [turn, history]
    nSends,             \* chat messages sent so far
    isChatOpen,         \* App: the chat panel is shown
    chatFailed,         \* history: the turns whose chat call threw
    saveNoAnalysis,     \* history: handleSave was called while analysis was null
    lastArrived,        \* history: Null, or what the guidance call of the scan
                        \* that completed last did, since the hints were cleared
    discarded,          \* history: the view is live after a discard
    activeTab,          \* DataView: "dashboard", "reconstruction" or "gallery"
    modelStatus,        \* DataView: "idle", "generating" or "ready"
    viewMode,           \* DataView: "3d" or "video"
    generatedVideoUrl,  \* DataView: 0 (null) or the job whose video it is
    isVideoGenerating,  \* DataView
    dashboardVideoUrl,  \* DataView: 0 (null) or the job whose video it is
    isDashboardVideoGenerating, \* DataView
    stats,              \* DataView: Null, or the figures its render computes
    jobs,               \* the runs of a video handler, by number
    nJobs               \* video handler runs started so far

appVars == <<currentRole, capturedItems, goals, errorRaised>>
fieldVars == <<capturedImage, annotatedImage, isAnalyzing, isAugmenting, analysis,
               isGuidanceActive, guidanceMessages, intervalActive, nCaptures, nScans,
               scanReqs, analyzeReqs, augmentReqs, augCount, outcomeOf, saveNoAnalysis,
               lastArrived, discarded>>
chatVars == <<messages, input, isTyping, chatReqs, nSends, isChatOpen, chatFailed>>
dataViewVars == <<activeTab, modelStatus, viewMode, generatedVideoUrl, isVideoGenerating,
                  dashboardVideoUrl, isDashboardVideoGenerating, stats>>
dataVars == <<dataViewVars, jobs, nJobs>>
vars == <<appVars, fieldVars, chatVars, dataVars>>

Captures == 1..MaxCaptures

G1Initial == 12
G2Initial == 18

\* getPreCaptureGuidance: the parsed array (0-3 hints), or the sentinel
\* what a guidance call of the service does: it throws, it answers without
\* text, or it answers an array of hints
StrMoveCloser == <<"Move Closer">>
StrGuidanceUnavailable == <<"Guidance unavailable">>
GuidanceResponses == {[hints |-> StrMoveCloser], [noText |-> TRUE], [throws |-> TRUE]}

\* getPreCaptureGuidance with its catch branch returning an empty array
GetPreCaptureGuidanceEmptyOnError(resp) ==
    IF resp \in {[throws |-> TRUE], [noText |-> TRUE]} THEN <<>> ELSE resp.hints

\* getPreCaptureGuidance: the parsed array, the parse of '[]' when the answer
\* has no text, or the sentinel when the call throws
GetPreCaptureGuidance(resp) ==
    IF resp = [throws |-> TRUE] THEN StrGuidanceUnavailable
    ELSE IF resp = [noText |-> TRUE] THEN <<>>
    ELSE resp.hints

HintSets == {GetPreCaptureGuidance(resp) : resp \in GuidanceResponses}

\* ----------------------------------------------------------------- chat texts
StrHi == <<"h","i">>
StrBlank == <<" ">>
StrReply == <<"o","k">>
\* "Connection to Central interrupted."
StrInterrupted ==
    <<"C","o","n","n","e","c","t","i","o","n"," ","t","o"," ","C","e","n","t","r","a","l",
      " ","i","n","t","e","r","r","u","p","t","e","d",".">>
StrGreeting == <<"O","n","l","i","n","e">>

\* what the user can type into the box
Typed == {<<>>, StrBlank, StrHi, StrBlank \o StrHi}

\* what a chat call of the service does: it throws or it answers a text
ChatResponses == {[text |-> StrReply], Throws}

\* sendChatMessage with its catch branch returning an empty text
SendChatMessageNoFallback(resp) == IF resp = Throws THEN <<>> ELSE resp.text

\* sendChatMessage: the model's text, or the fallback when the call throws
SendChatMessage(resp) == IF resp = Throws THEN StrInterrupted ELSE resp.text

ChatOutcomes == {SendChatMessage(resp) : resp \in ChatResponses}

\* String.prototype.trim
RECURSIVE TrimLeft(_)
TrimLeft(s) == IF s # <<>> /\ Head(s) = " " THEN TrimLeft(Tail(s)) ELSE s

RECURSIVE TrimRight(_)
TrimRight(s) ==
    IF s # <<>> /\ s[Len(s)] = " " THEN TrimRight(SubSeq(s, 1, Len(s) - 1)) ELSE s

Trim(s) == TrimRight(TrimLeft(s))

\* A chat message.  turn stands for the identity crypto.randomUUID gives: the
\* number of the send that produced the message (0 for the greeting); a reply
\* carries the turn of the send whose continuation appended it.
Greeting == [sender |-> "ai", turn |-> 0, text |-> StrGreeting]

\* Math.floor of num / den
MathFloor(num, den) == num \div den

\* Math.round of num / den, for num >= 0 and den > 0: the floor of the
\* quotient plus one half
MathRound(num, den) == (2 * num + den) \div (2 * den)

\* The figures DataView computes from its items prop on every render:
\* pendingCount = items.filter(i => i.status === 'pending').length
\* qualityPercentage = items.length > 0
\*     ? Math.round(items.filter(i => i.analysis?.isQualitySufficient).length
\*                  / items.length * 100)
\*     : 0
StatsOf(items) ==
    LET sufficient == {i \in 1..Len(items) : Truthy(items[i].analysis)}
        pending == {i \in 1..Len(items) : items[i].status = "pending"}
    IN  [qualityPercentage |->
             IF Len(items) > 0
             THEN MathRound(Cardinality(sufficient) * 100, Len(items))
             ELSE 0,
         pendingCount |-> Cardinality(pending)]

\* A run of handleGenerateVideo or handleGenerateDashboardVideo, with the run
\* of generateInspectionVideo inside it.  phase is the position of the run:
\* "key" (awaiting checkVeoKey), "submit" (awaiting generateVideos), "wait"
\* (awaiting the 5000 ms timer), "poll" (awaiting getVideosOperation), and,
\* once the handler is over, what generateInspectionVideo gave its caller:
\* "result" (a URL), "noresult" (null) or "error" (it threw).
\* live says that the run is not over and the component that started it is
\* still mounted, so that its state updates take effect.
\* submits, polls, notDone, failed and alerted are history: the calls of
\* generateVideos and of getVideosOperation made, the handles received with
\* done false, whether a call threw, whether the handler called alert().
JobIds == 1..MaxJobs

UnusedJob ==
    [flow |-> "none", phase |-> "unused", live |-> FALSE, submits |-> 0,
     polls |-> 0, notDone |-> 0, failed |-> FALSE, alerted |-> FALSE]

\* the state of a DataView that has just mounted
DataViewInit ==
    /\ activeTab = "dashboard"
    /\ modelStatus = "idle"
    /\ viewMode = "3d"
    /\ generatedVideoUrl = 0
    /\ isVideoGenerating = FALSE
    /\ dashboardVideoUrl = 0
    /\ isDashboardVideoGenerating = FALSE

\* the state of a FieldView that has just mounted, with no request in flight
FieldViewInit ==
    /\ capturedImage = 0
    /\ annotatedImage = 0
    /\ isAnalyzing = FALSE
    /\ isAugmenting = FALSE
    /\ analysis = Null
    /\ isGuidanceActive = FALSE
    /\ guidanceMessages = <<>>
    /\ lastArrived = Null
    /\ discarded = FALSE
    /\ intervalActive = FALSE
    /\ scanReqs = {}
    /\ analyzeReqs = {}
    /\ augmentReqs = {}
    /\ augCount = [c \in Captures |-> 0]
    /\ nScans = 0
    /\ saveNoAnalysis = FALSE

\* the state of the ChatPanel when the application starts
ChatInit ==
    /\ messages = <<Greeting>>
    /\ input = <<>>
    /\ isTyping = FALSE
    /\ chatReqs = {}
    /\ nSends = 0
    /\ isChatOpen = FALSE
    /\ chatFailed = {}

Init ==
    /\ currentRole = "FIELD"
    /\ capturedItems = <<>>
    /\ goals = [g1 |-> G1Initial, g2 |-> G2Initial]
    /\ errorRaised = FALSE
    /\ nCaptures = 0
    /\ outcomeOf = [c \in Captures |-> "none"]
    /\ FieldViewInit
    /\ ChatInit
    /\ DataViewInit
    /\ stats = Null
    /\ jobs = [id \in JobIds |-> UnusedJob]
    /\ nJobs = 0

\* An item the capture view commits: capture 1, analysed as a crack of
\* insufficient quality, saved without overlay.
SampleItem ==
    [imageUrl |-> 1, annotatedImageUrl |-> 0,
     analysis |-> [hasFields |-> TRUE, defectType |-> StrCrack,
                   isQualitySufficient |-> FALSE],
     status |-> "pending"]

\* The application after the user has committed nothing or SampleItem and has
\* switched to the Data Lab.
DataInit ==
    /\ currentRole = "DATA"
    /\ capturedItems \in {<<>>, <<SampleItem>>}
    /\ goals = [g1 |-> G1Initial + Len(capturedItems), g2 |-> G2Initial]
    /\ errorRaised = FALSE
    /\ nCaptures = Len(capturedItems)
    /\ outcomeOf = [c \in Captures |-> IF c <= Len(capturedItems) THEN "other" ELSE "none"]
    /\ FieldViewInit
    /\ ChatInit
    /\ DataViewInit
    /\ stats = StatsOf(capturedItems)
    /\ jobs = [id \in JobIds |-> UnusedJob]
    /\ nJobs = 0

Mounted == currentRole = "FIELD"

\* The analysis requests of an unmounted component: their continuations still
\* run, but the state updates they issue are dropped.
Orphaned(reqs) == {[r EXCEPT !.live = FALSE] : r \in reqs}

\* --------------------------------------------------------- App: the dataset
\* prev.map(g => g.id === 'g2' ? {...g, currentCount: g.currentCount + 1} : g)
\* or the same for 'g1'
GoalsAfter(item) ==
    IF IsRust(item.analysis)
    THEN [goals EXCEPT !.g2 = @ + 1]
    ELSE [goals EXCEPT !.g1 = @ + 1]

\* handleNewCapture with [item, ...prev] for [...prev, item]
HandleNewCapturePrepends(item) ==
    /\ capturedItems' = <<item>> \o capturedItems
    /\ IF ClassifyThrows(item.analysis)
       THEN /\ goals' = goals
            /\ errorRaised' = TRUE
       ELSE /\ goals' = GoalsAfter(item)
            /\ UNCHANGED errorRaised

\* handleNewCapture: the append is queued first; the classification then
\* throws when defectType is undefined, and the goal update is never queued.
HandleNewCapture(item) ==
    /\ capturedItems' = Append(capturedItems, item)
    /\ IF ClassifyThrows(item.analysis)
       THEN /\ goals' = goals
            /\ errorRaised' = TRUE
       ELSE /\ goals' = GoalsAfter(item)
            /\ UNCHANGED errorRaised

\* ------------------------------------------------- FieldView: guidance loop
\* scanFrame up to its await: videoRef.current is set while the live video
\* element is rendered, that is while no image is captured.
StartScan ==
    /\ nScans' = nScans + 1
    /\ scanReqs' = scanReqs \cup {nScans + 1}

\* the guidance effect without the scanFrame() call that precedes setInterval
GuidanceEffectNoFirstScan(active, img) ==
    IF active /\ img = 0
    THEN /\ intervalActive' = TRUE
         /\ UNCHANGED <<guidanceMessages, lastArrived, nScans, scanReqs>>
    ELSE /\ guidanceMessages' = <<>>
         /\ lastArrived' = Null
         /\ intervalActive' = FALSE
         /\ UNCHANGED <<nScans, scanReqs>>

\* The guidance effect, re-run because isGuidanceActive or capturedImage
\* changed: the cleanup clears the interval, then the body runs with the new
\* values.
GuidanceEffect(active, img) ==
    IF active /\ img = 0
    THEN /\ StartScan
         /\ intervalActive' = TRUE
         /\ UNCHANGED <<guidanceMessages, lastArrived>>
    ELSE /\ guidanceMessages' = <<>>
         /\ lastArrived' = Null
         /\ intervalActive' = FALSE
         /\ UNCHANGED <<nScans, scanReqs>>

\* onClick of the guidance button
ToggleGuidance ==
    /\ Mounted /\ capturedImage = 0
    /\ isGuidanceActive \/ nScans < MaxScans
    /\ isGuidanceActive' = ~isGuidanceActive
    /\ GuidanceEffect(~isGuidanceActive, capturedImage)
    /\ UNCHANGED <<appVars, chatVars, dataVars, saveNoAnalysis, discarded, capturedImage, annotatedImage, isAnalyzing,
                   isAugmenting, analysis, nCaptures, analyzeReqs, augmentReqs,
                   augCount, outcomeOf>>

\* a tick of the 3000 ms interval
Tick ==
    /\ Mounted /\ intervalActive
    /\ capturedImage = 0
    /\ nScans < MaxScans
    /\ StartScan
    /\ UNCHANGED <<appVars, chatVars, dataVars, saveNoAnalysis, discarded, capturedImage, annotatedImage, isAnalyzing,
                   isAugmenting, analysis, isGuidanceActive, guidanceMessages, lastArrived,
                   intervalActive, nCaptures, analyzeReqs, augmentReqs, augCount,
                   outcomeOf>>

\* scanFrame after its await, publishing only the scan started last
ScanDoneNewestOnly ==
    \E req \in scanReqs, resp \in GuidanceResponses :
        /\ scanReqs' = scanReqs \ {req}
        /\ guidanceMessages' =
               IF req = nScans THEN GetPreCaptureGuidance(resp) ELSE guidanceMessages
        /\ lastArrived' = resp
        /\ UNCHANGED <<appVars, chatVars, dataVars, saveNoAnalysis, discarded,
                       capturedImage, annotatedImage, isAnalyzing, isAugmenting,
                       analysis, isGuidanceActive, intervalActive, nCaptures, nScans,
                       analyzeReqs, augmentReqs, augCount, outcomeOf>>

\* scanFrame after its await: setGuidanceMessages(msgs)
ScanDone ==
    \E req \in scanReqs, resp \in GuidanceResponses :
        /\ scanReqs' = scanReqs \ {req}
        /\ guidanceMessages' = GetPreCaptureGuidance(resp)
        /\ lastArrived' = resp
        /\ UNCHANGED <<appVars, chatVars, dataVars, saveNoAnalysis, discarded,
                       capturedImage, annotatedImage, isAnalyzing, isAugmenting,
                       analysis, isGuidanceActive, intervalActive, nCaptures, nScans,
                       analyzeReqs, augmentReqs, augCount, outcomeOf>>

\* ------------------------------------------------ FieldView: capture session
\* handleCapture without setIsGuidanceActive(false)
HandleCaptureKeepsGuidance ==
    /\ Mounted /\ capturedImage = 0
    /\ nCaptures < MaxCaptures
    /\ nCaptures' = nCaptures + 1
    /\ capturedImage' = nCaptures + 1
    /\ GuidanceEffect(isGuidanceActive, nCaptures + 1)
    /\ discarded' = FALSE
    /\ UNCHANGED <<appVars, chatVars, dataVars, saveNoAnalysis, annotatedImage,
                   isAnalyzing, isAugmenting, analysis, isGuidanceActive,
                   analyzeReqs, augmentReqs, augCount, outcomeOf>>

\* handleCapture: the frame is stored and guidance is switched off
HandleCapture ==
    /\ Mounted /\ capturedImage = 0
    /\ nCaptures < MaxCaptures
    /\ nCaptures' = nCaptures + 1
    /\ capturedImage' = nCaptures + 1
    /\ isGuidanceActive' = FALSE
    /\ GuidanceEffect(FALSE, nCaptures + 1)
    /\ discarded' = FALSE
    /\ UNCHANGED <<appVars, chatVars, dataVars, saveNoAnalysis, annotatedImage, isAnalyzing, isAugmenting,
                   analysis, analyzeReqs, augmentReqs, augCount, outcomeOf>>

\* handleAnalyze up to its await
HandleAnalyze ==
    /\ Mounted /\ capturedImage # 0
    /\ analysis = Null /\ ~isAnalyzing
    /\ isAnalyzing' = TRUE
    /\ analysis' = Null
    /\ annotatedImage' = 0
    /\ analyzeReqs' = analyzeReqs \cup {[img |-> capturedImage, live |-> TRUE]}
    /\ UNCHANGED <<appVars, chatVars, dataVars, saveNoAnalysis, discarded, capturedImage, isAugmenting, isGuidanceActive,
                   guidanceMessages, lastArrived, intervalActive, nCaptures, nScans, scanReqs,
                   augmentReqs, augCount, outcomeOf>>

\* handleAugment up to its await
HandleAugment(req) ==
    /\ isAugmenting' = IF req.live THEN TRUE ELSE isAugmenting
    /\ augmentReqs' = IF req.live THEN augmentReqs \cup {req.img} ELSE augmentReqs
    /\ augCount' = [augCount EXCEPT ![req.img] = @ + 1]

\* handleAnalyze after its await
AnalyzeDone ==
    \E req \in analyzeReqs, resp \in AnalyzeResponses :
        LET result == AnalyzeFieldImage(resp) IN
        /\ analyzeReqs' = analyzeReqs \ {req}
        /\ outcomeOf' = [outcomeOf EXCEPT ![req.img] = ResponseKind(resp)]
        /\ analysis' = IF req.live THEN result ELSE analysis
        /\ isAnalyzing' = IF req.live THEN FALSE ELSE isAnalyzing
        /\ IF ShouldAugment(result)
           THEN HandleAugment(req)
           ELSE UNCHANGED <<isAugmenting, augmentReqs, augCount>>
        /\ UNCHANGED <<appVars, chatVars, dataVars, saveNoAnalysis, discarded, capturedImage, annotatedImage,
                       isGuidanceActive, guidanceMessages, lastArrived, intervalActive, nCaptures,
                       nScans, scanReqs>>

\* handleAugment after its await: the overlay of the request's image, or null
AugmentDone ==
    \E req \in augmentReqs : \E overlay \in {0, req} :
        /\ augmentReqs' = augmentReqs \ {req}
        /\ annotatedImage' = overlay
        /\ isAugmenting' = FALSE
        /\ UNCHANGED <<appVars, chatVars, dataVars, saveNoAnalysis, discarded, capturedImage, isAnalyzing, analysis,
                       isGuidanceActive, guidanceMessages, lastArrived, intervalActive, nCaptures,
                       nScans, scanReqs, analyzeReqs, augCount, outcomeOf>>

\* onClick of TOGGLE AR LAYER: prev === annotatedImage, so the overlay is dropped
ToggleArLayer ==
    /\ Mounted /\ capturedImage # 0
    /\ annotatedImage # 0 /\ ~isAugmenting
    /\ annotatedImage' = 0
    /\ UNCHANGED <<appVars, chatVars, dataVars, saveNoAnalysis, discarded, capturedImage, isAnalyzing, isAugmenting,
                   analysis, isGuidanceActive, guidanceMessages, lastArrived, intervalActive,
                   nCaptures, nScans, scanReqs, analyzeReqs, augmentReqs, augCount,
                   outcomeOf>>

\* handleReset, with the guidance effect its change of capturedImage re-runs
HandleResetBody ==
    /\ capturedImage' = 0
    /\ analysis' = Null
    /\ annotatedImage' = 0
    /\ isGuidanceActive' = FALSE
    /\ GuidanceEffect(FALSE, 0)

\* a Discard button wired to the save handler's body
HandleResetCommits ==
    /\ Mounted /\ capturedImage # 0 /\ analysis # Null
    /\ Len(capturedItems) < MaxItems
    /\ capturedItems' = Append(capturedItems,
           [imageUrl |-> capturedImage, annotatedImageUrl |-> annotatedImage,
            analysis |-> analysis, status |-> "pending"])
    /\ HandleResetBody
    /\ discarded' = TRUE
    /\ UNCHANGED <<currentRole, goals, errorRaised, chatVars, dataVars, saveNoAnalysis,
                   isAnalyzing, isAugmenting, nCaptures, analyzeReqs, augmentReqs,
                   augCount, outcomeOf>>

\* onClick of Discard
HandleReset ==
    /\ Mounted /\ capturedImage # 0 /\ analysis # Null
    /\ HandleResetBody
    /\ discarded' = TRUE
    /\ UNCHANGED <<appVars, chatVars, dataVars, saveNoAnalysis, isAnalyzing, isAugmenting, nCaptures,
                   analyzeReqs, augmentReqs, augCount, outcomeOf>>

NewItem ==
    [imageUrl |-> capturedImage,
     annotatedImageUrl |-> annotatedImage,
     analysis |-> analysis,
     status |-> ItemStatus(analysis)]

\* onClick of Upload to Dataset: onCapture(newItem), then handleReset() unless
\* onCapture threw
HandleSave ==
    /\ Mounted /\ capturedImage # 0 /\ analysis # Null
    /\ Len(capturedItems) < MaxItems
    /\ HandleNewCapture(NewItem)
    /\ IF ClassifyThrows(analysis)
       THEN UNCHANGED <<capturedImage, analysis, annotatedImage, isGuidanceActive,
                        guidanceMessages, lastArrived, intervalActive, nScans, scanReqs>>
       ELSE HandleResetBody
    /\ UNCHANGED <<currentRole, chatVars, dataVars, saveNoAnalysis, discarded, isAnalyzing,
                   isAugmenting, nCaptures, analyzeReqs, augmentReqs, augCount,
                   outcomeOf>>

\* ------------------------------------------------------- App: role switcher
\* setCurrentRole(Role.DATA_SCIENTIST): FieldView unmounts, its effect
\* cleanups clear the interval and its state is lost.
SwitchToDataLab ==
    /\ currentRole = "FIELD"
    /\ currentRole' = "DATA"
    /\ capturedImage' = 0
    /\ annotatedImage' = 0
    /\ isAnalyzing' = FALSE
    /\ isAugmenting' = FALSE
    /\ analysis' = Null
    /\ isGuidanceActive' = FALSE
    /\ guidanceMessages' = <<>>
    /\ lastArrived' = Null
    /\ discarded' = FALSE
    /\ intervalActive' = FALSE
    /\ scanReqs' = {}
    /\ analyzeReqs' = Orphaned(analyzeReqs)
    /\ augmentReqs' = {}
    /\ stats' = StatsOf(capturedItems)
    /\ UNCHANGED <<activeTab, modelStatus, viewMode, generatedVideoUrl, isVideoGenerating,
                   dashboardVideoUrl, isDashboardVideoGenerating, jobs, nJobs>>
    /\ UNCHANGED <<capturedItems, goals, errorRaised, chatVars, saveNoAnalysis,
                   nCaptures, nScans, augCount, outcomeOf>>

\* setCurrentRole(Role.FIELD_ENGINEER): a fresh FieldView mounts.  DataView
\* unmounts and its state is lost; it has no cleanup, so the handler runs in
\* flight go on, and the state updates they issue are dropped.
SwitchToFieldOps ==
    /\ currentRole = "DATA"
    /\ currentRole' = "FIELD"
    /\ activeTab' = "dashboard"
    /\ modelStatus' = "idle"
    /\ viewMode' = "3d"
    /\ generatedVideoUrl' = 0
    /\ isVideoGenerating' = FALSE
    /\ dashboardVideoUrl' = 0
    /\ isDashboardVideoGenerating' = FALSE
    /\ stats' = Null
    /\ jobs' = [id \in JobIds |-> [jobs[id] EXCEPT !.live = FALSE]]
    /\ UNCHANGED <<capturedItems, goals, errorRaised, chatVars, fieldVars, nJobs>>

FieldNext ==
    \/ ToggleGuidance
    \/ Tick
    \/ ScanDone
    \/ HandleCapture
    \/ HandleAnalyze
    \/ AnalyzeDone
    \/ AugmentDone
    \/ ToggleArLayer
    \/ HandleReset
    \/ HandleSave
    \/ SwitchToDataLab
    \/ SwitchToFieldOps

FieldSpec == Init /\ [][FieldNext]_vars

\* handleSave with handleReset() after the if instead of inside it
HandleSaveWithoutAnalysisResets ==
    /\ Mounted
    /\ ~(capturedImage # 0 /\ analysis # Null)
    /\ saveNoAnalysis' = TRUE
    /\ HandleResetBody
    /\ UNCHANGED <<appVars, chatVars, dataVars, discarded, isAnalyzing, isAugmenting, nCaptures,
                   analyzeReqs, augmentReqs, augCount, outcomeOf>>

\* handleSave called while if (capturedImage && analysis) is false: the body
\* is skipped and the function returns.  The view renders the button that
\* calls handleSave only while analysis is set, so this is the handler called
\* as a function, not a click.
HandleSaveWithoutAnalysis ==
    /\ Mounted
    /\ ~(capturedImage # 0 /\ analysis # Null)
    /\ saveNoAnalysis' = TRUE
    /\ UNCHANGED <<appVars, chatVars, dataVars, discarded, capturedImage, annotatedImage,
                   isAnalyzing, isAugmenting, analysis, isGuidanceActive,
                   guidanceMessages, lastArrived, intervalActive, nCaptures, nScans, scanReqs,
                   analyzeReqs, augmentReqs, augCount, outcomeOf>>

\* The capture session by itself: the capture view without its guidance
\* scanner, with handleSave callable at any time.
SessionNext ==
    \/ HandleCapture
    \/ HandleAnalyze
    \/ AnalyzeDone
    \/ AugmentDone
    \/ ToggleArLayer
    \/ HandleReset
    \/ HandleSave
    \/ HandleSaveWithoutAnalysis
    \/ SwitchToDataLab
    \/ SwitchToFieldOps

\* The continuation of an await runs once the awaited call has returned or
\* thrown; the user is under no obligation to act.
SessionSpec ==
    /\ Init
    /\ [][SessionNext]_vars
    /\ WF_vars(AnalyzeDone)
    /\ WF_vars(AugmentDone)

\* The guidance scanner by itself: the capture view without analysis and
\* save, where a capture or an unmount stops the scanner.
GuidanceNext ==
    \/ ToggleGuidance
    \/ Tick
    \/ ScanDone
    \/ HandleCapture
    \/ SwitchToDataLab
    \/ SwitchToFieldOps

GuidanceSpec == Init /\ [][GuidanceNext]_vars

\* The items handleSave can hand to onCapture: the analysis is what
\* analyzeFieldImage returned, the status follows from it.
ItemOf(img, r) ==
    [imageUrl |-> img, annotatedImageUrl |-> 0, analysis |-> r, status |-> ItemStatus(r)]

\* onCapture called by the capture view with such an item
OnCapture ==
    \E r \in AnalyzeOutcomes :
        /\ Mounted
        /\ Len(capturedItems) < MaxStored
        /\ HandleNewCapture(ItemOf(Len(capturedItems) + 1, r))
        /\ UNCHANGED <<currentRole, fieldVars, chatVars, dataVars>>

\* The dataset by itself: items arrive through onCapture, and the Data Lab
\* computes its figures from them when it is shown.
StoreNext ==
    \/ OnCapture
    \/ SwitchToDataLab
    \/ SwitchToFieldOps

StoreSpec == Init /\ [][StoreNext]_vars

\* -------------------------------------------------------------- DataView
DataMounted == currentRole = "DATA"

\* onClick of the three tab buttons
SetActiveTab ==
    \E tab \in {"dashboard", "reconstruction", "gallery"} :
        /\ DataMounted
        /\ tab # activeTab
        /\ activeTab' = tab
        /\ UNCHANGED <<appVars, fieldVars, chatVars, stats, modelStatus, viewMode,
                       generatedVideoUrl, isVideoGenerating, dashboardVideoUrl,
                       isDashboardVideoGenerating, jobs, nJobs>>

\* handleGenerateModel, behind a button disabled while there is no item
HandleGenerateModel ==
    /\ DataMounted /\ activeTab = "reconstruction"
    /\ modelStatus = "idle"
    /\ Len(capturedItems) > 0
    /\ modelStatus' = "generating"
    /\ UNCHANGED <<appVars, fieldVars, chatVars, stats, activeTab, viewMode,
                   generatedVideoUrl, isVideoGenerating, dashboardVideoUrl,
                   isDashboardVideoGenerating, jobs, nJobs>>

\* the 3500 ms timer of handleGenerateModel
ModelReady ==
    /\ DataMounted
    /\ modelStatus = "generating"
    /\ modelStatus' = "ready"
    /\ UNCHANGED <<appVars, fieldVars, chatVars, stats, activeTab, viewMode,
                   generatedVideoUrl, isVideoGenerating, dashboardVideoUrl,
                   isDashboardVideoGenerating, jobs, nJobs>>

\* onClick of Reset Simulation, shown with the 3D view of a ready model
ResetSimulation ==
    /\ DataMounted /\ activeTab = "reconstruction"
    /\ modelStatus = "ready" /\ viewMode = "3d"
    /\ modelStatus' = "idle"
    /\ UNCHANGED <<appVars, fieldVars, chatVars, stats, activeTab, viewMode,
                   generatedVideoUrl, isVideoGenerating, dashboardVideoUrl,
                   isDashboardVideoGenerating, jobs, nJobs>>

\* handleGenerateVideo and handleGenerateDashboardVideo up to their first
\* await: if (items.length === 0) return; await checkVeoKey();
StartVideoHandler(flow) ==
    IF Len(capturedItems) = 0
    THEN UNCHANGED <<jobs, nJobs>>
    ELSE /\ nJobs < MaxJobs
         /\ nJobs' = nJobs + 1
         /\ jobs' = [jobs EXCEPT ![nJobs + 1] =
                        [UnusedJob EXCEPT !.flow = flow, !.phase = "key", !.live = TRUE]]

\* onClick of the AI VIDEO MODE switch, and the effect on viewMode that
\* follows the render
ToggleViewMode ==
    /\ DataMounted /\ activeTab = "reconstruction"
    /\ modelStatus = "ready"
    /\ viewMode' = IF viewMode = "3d" THEN "video" ELSE "3d"
    /\ IF viewMode' = "video" /\ generatedVideoUrl = 0 /\ ~isVideoGenerating
       THEN StartVideoHandler("view")
       ELSE UNCHANGED <<jobs, nJobs>>
    /\ UNCHANGED <<appVars, fieldVars, chatVars, stats, activeTab, modelStatus,
                   generatedVideoUrl, isVideoGenerating, dashboardVideoUrl,
                   isDashboardVideoGenerating>>

\* onClick of Generate Highlights, shown while there is neither a dashboard
\* video nor a dashboard job known to run, disabled while there is no item
HandleGenerateDashboardVideo ==
    /\ DataMounted /\ activeTab = "dashboard"
    /\ dashboardVideoUrl = 0 /\ ~isDashboardVideoGenerating
    /\ Len(capturedItems) > 0
    /\ StartVideoHandler("dash")
    /\ UNCHANGED <<appVars, fieldVars, chatVars, dataViewVars>>

\* setIsVideoGenerating / setIsDashboardVideoGenerating by a run of the handler
\* of flow; dropped when the component of the run has unmounted
SetGenerating(j, value) ==
    /\ isVideoGenerating' =
           IF j.live /\ j.flow = "view" THEN value ELSE isVideoGenerating
    /\ isDashboardVideoGenerating' =
           IF j.live /\ j.flow = "dash" THEN value ELSE isDashboardVideoGenerating

\* The handler after await checkVeoKey(): it sets its generating flag and
\* calls generateInspectionVideo, which calls generateVideos.
KeyDone ==
    \E id \in JobIds :
        /\ jobs[id].phase = "key"
        /\ jobs' = [jobs EXCEPT ![id].phase = "submit", ![id].submits = @ + 1]
        /\ SetGenerating(jobs[id], TRUE)
        /\ UNCHANGED <<appVars, fieldVars, chatVars, stats, activeTab, modelStatus, viewMode,
                       generatedVideoUrl, dashboardVideoUrl, nJobs>>

\* ------------------------------------------- generateInspectionVideo
\* What a call of generateVideos or of getVideosOperation does: it throws, or
\* it answers a handle that is not done, done with a video, or done without.
JobAnswers == {"throws", "notDone", "doneWithVideo", "doneWithoutVideo"}

\* a loop that runs its body once more after the handle is done
LoopContinuesOnceMore(answer) == answer \in {"notDone", "doneWithVideo"}

\* while (!operation.done), entered with the handle a call answered
LoopContinues(answer) == answer = "notDone"

\* a catch branch that returns null
RunOutcomeSwallowed(answer) ==
    IF answer = "doneWithVideo" THEN "result" ELSE "noresult"

\* a poller that throws when the finished handle carries no video
RunOutcomeThrowsWithoutVideo(answer) ==
    IF answer = "doneWithVideo" THEN "result" ELSE "error"

\* What generateInspectionVideo gives its caller once the loop is left: the
\* URL when the handle carries one, else null; the catch branch logs and
\* throws the error again.
RunOutcome(answer) ==
    IF answer = "throws" THEN "error"
    ELSE IF answer = "doneWithVideo" THEN "result"
    ELSE "noresult"

\* catch (e) of the two handlers: handleGenerateVideo logs and calls alert(),
\* handleGenerateDashboardVideo only logs
Alerts(flow, outcome) == outcome = "error" /\ flow = "view"

\* The rest of the handler once generateInspectionVideo is over: the URL is
\* stored when there is one, the catch branch runs on an error, and finally
\* clears the generating flag.  State updates of an unmounted run are dropped.
FinishHandler(id, outcome) ==
    LET j == jobs[id] IN
    /\ generatedVideoUrl' =
           IF j.live /\ j.flow = "view" /\ outcome = "result" THEN id ELSE generatedVideoUrl
    /\ dashboardVideoUrl' =
           IF j.live /\ j.flow = "dash" /\ outcome = "result" THEN id ELSE dashboardVideoUrl
    /\ SetGenerating(j, FALSE)

\* history: the handles with done false that the runs 1..n have received
RECURSIVE NotDoneUpTo(_)
NotDoneUpTo(n) == IF n = 0 THEN 0 ELSE jobs[n].notDone + NotDoneUpTo(n - 1)

\* generateInspectionVideo after the await of generateVideos or of
\* getVideosOperation, and, when the loop is left, the rest of the handler
JobAnswered ==
    \E id \in JobIds, answer \in JobAnswers :
        /\ jobs[id].phase \in {"submit", "poll"}
        /\ answer = "notDone" => NotDoneUpTo(MaxJobs) < MaxPolls
        /\ IF LoopContinues(answer)
           THEN /\ jobs' = [jobs EXCEPT
                              ![id].phase = "wait",
                              ![id].notDone = IF answer = "notDone" THEN @ + 1 ELSE @]
                /\ UNCHANGED dataViewVars
           ELSE /\ jobs' = [jobs EXCEPT
                              ![id].phase = RunOutcome(answer),
                              ![id].live = FALSE,
                              ![id].notDone = IF answer = "notDone" THEN @ + 1 ELSE @,
                              ![id].failed = (answer = "throws"),
                              ![id].alerted = Alerts(jobs[id].flow, RunOutcome(answer))]
                /\ FinishHandler(id, RunOutcome(answer))
                /\ UNCHANGED <<activeTab, modelStatus, viewMode, stats>>
        /\ UNCHANGED <<appVars, fieldVars, chatVars, nJobs>>

\* the 5000 ms timer of the loop fires and getVideosOperation is called
PollTimer ==
    \E id \in JobIds :
        /\ jobs[id].phase = "wait"
        /\ jobs' = [jobs EXCEPT ![id].phase = "poll", ![id].polls = @ + 1]
        /\ UNCHANGED <<appVars, fieldVars, chatVars, dataViewVars, nJobs>>

DataNext ==
    \/ SetActiveTab
    \/ HandleGenerateModel
    \/ ModelReady
    \/ ResetSimulation
    \/ ToggleViewMode
    \/ HandleGenerateDashboardVideo
    \/ KeyDone
    \/ JobAnswered
    \/ PollTimer
    \/ SwitchToFieldOps
    \/ SwitchToDataLab

DataSpec == DataInit /\ [][DataNext]_vars

\* ------------------------------------------------------------------- chat
\* onOpenChat of either view
OpenChat ==
    /\ ~isChatOpen
    /\ isChatOpen' = TRUE
    /\ UNCHANGED <<appVars, fieldVars, dataVars, messages, input, isTyping, chatReqs,
                   nSends, chatFailed>>

\* onClose of the panel; the panel stays mounted and keeps its state
CloseChat ==
    /\ isChatOpen
    /\ isChatOpen' = FALSE
    /\ UNCHANGED <<appVars, fieldVars, dataVars, messages, input, isTyping, chatReqs,
                   nSends, chatFailed>>

\* onChange of the text box
SetInput ==
    \E t \in Typed :
        /\ isChatOpen
        /\ t # input
        /\ input' = t
        /\ UNCHANGED <<appVars, fieldVars, dataVars, messages, isTyping, chatReqs,
                       nSends, isChatOpen, chatFailed>>

\* if (!input.trim()) return;
SendAllowed == Trim(input) # <<>>

\* handleSend up to its await.  The history passed with the request is the
\* messages prop of the render the handler closed over.
HandleSend ==
    /\ isChatOpen
    /\ SendAllowed
    /\ nSends < MaxSends
    /\ nSends' = nSends + 1
    /\ messages' = Append(messages, [sender |-> "user", turn |-> nSends + 1, text |-> input])
    /\ input' = <<>>
    /\ isTyping' = TRUE
    /\ chatReqs' = chatReqs \cup {[turn |-> nSends + 1, history |-> Len(messages)]}
    /\ UNCHANGED <<appVars, fieldVars, dataVars, isChatOpen, chatFailed>>

\* handleSend after its await
ChatDone ==
    \E req \in chatReqs, resp \in ChatResponses :
        /\ chatReqs' = chatReqs \ {req}
        /\ messages' = Append(messages, [sender |-> "ai", turn |-> req.turn,
                                         text |-> SendChatMessage(resp)])
        /\ isTyping' = FALSE
        /\ chatFailed' = IF resp = Throws THEN chatFailed \cup {req.turn} ELSE chatFailed
        /\ UNCHANGED <<appVars, fieldVars, dataVars, input, nSends, isChatOpen>>

ChatNext ==
    \/ OpenChat
    \/ CloseChat
    \/ SetInput
    \/ HandleSend
    \/ ChatDone

ChatSpec == Init /\ [][ChatNext]_vars

\* the chat with every request eventually returning or failing
ChatLiveSpec == ChatSpec /\ WF_vars(ChatDone)

Next == FieldNext \/ DataNext \/ ChatNext

Spec == Init /\ [][Next]_vars

\* ====================================================================
\* Properties
\* ====================================================================

\* "defectType contains rust, case-insensitively", stated without the code's
\* conversion; an item without a defectType does not name rust
NamesRust(r) ==
    /\ r.hasFields
    /\ \E k \in 0..(Len(r.defectType) - 4) :
           /\ r.defectType[k + 1] \in {"r", "R"}
           /\ r.defectType[k + 2] \in {"u", "U"}
           /\ r.defectType[k + 3] \in {"s", "S"}
           /\ r.defectType[k + 4] \in {"t", "T"}

ItemIndices == 1..Len(capturedItems)

\* C1: a session whose analysis outcome has a defect and sufficient quality
\* issues exactly one augmentation request; none is issued for a capture
\* before its analysis is stored (the view holds no analysis for it) nor
\* while its analysis request is in flight.
C1_AugmentOnceAfterAnalyzed ==
    /\ \A c \in Captures :
           outcomeOf[c] = "qualifying" => augCount[c] = 1
    /\ (capturedImage # 0 /\ analysis # Null /\ Qualifies(analysis))
           => augCount[capturedImage] = 1
    /\ (capturedImage # 0 /\ analysis = Null) => augCount[capturedImage] = 0
    /\ \A r \in analyzeReqs : augCount[r.img] = 0
    /\ \A c \in Captures : outcomeOf[c] = "none" => augCount[c] = 0
    /\ \A c \in Captures : augCount[c] <= 1

C1_Witness ==
    /\ capturedImage # 0 /\ analysis # Null /\ Qualifies(analysis)
    /\ ~isAnalyzing
    /\ augCount[capturedImage] = 1
    /\ capturedImage \in augmentReqs

\* C2: a session whose analysis outcome is "None" or of insufficient quality
\* (the fallback outcome included) never issues an augmentation request.
C2_NoAugmentWhenNotQualifying ==
    /\ \A c \in Captures :
           outcomeOf[c] \in {"other", "failed"} =>
               /\ augCount[c] = 0
               /\ c \notin augmentReqs
    /\ (capturedImage # 0 /\ analysis # Null /\ ~Qualifies(analysis))
           => augCount[capturedImage] = 0

\* a session that ended by save with the fallback outcome, with no request
\* issued over its whole life
C2_Witness ==
    \E i \in ItemIndices :
        /\ capturedItems[i].analysis = FallbackResult
        /\ augCount[capturedItems[i].imageUrl] = 0
        /\ capturedImage # capturedItems[i].imageUrl

ExactlyOneGoalIncremented ==
    \/ goals'.g1 = goals.g1 + 1 /\ goals'.g2 = goals.g2
    \/ goals'.g2 = goals.g2 + 1 /\ goals'.g1 = goals.g1

\* C3: commit is atomic: a step that changes the item list or the goals
\* appends one item and increments exactly one goal by one.
C3_CommitAtomic ==
    [][(capturedItems' # capturedItems \/ goals' # goals) =>
          /\ Len(capturedItems') = Len(capturedItems) + 1
          /\ SubSeq(capturedItems', 1, Len(capturedItems)) = capturedItems
          /\ ExactlyOneGoalIncremented]_vars

\* C4: commit cannot fail: a save raises no error and goes on to dispose
\* the session.
C4_CommitCannotFail ==
    [][Len(capturedItems') > Len(capturedItems) =>
          /\ errorRaised' = errorRaised
          /\ capturedImage' = 0
          /\ analysis' = Null
          /\ annotatedImage' = 0]_vars

\* C5: each commit increments the rust goal g2 by one when the item's
\* defectType names rust, else the default goal g1 by one, and leaves the
\* other goal unchanged.
C5_CommitIncrementsClassifiedGoal ==
    [][Len(capturedItems') > Len(capturedItems) =>
          IF NamesRust(capturedItems'[Len(capturedItems')].analysis)
          THEN goals'.g2 = goals.g2 + 1 /\ goals'.g1 = goals.g1
          ELSE goals'.g1 = goals.g1 + 1 /\ goals'.g2 = goals.g2]_vars

\* C6: an approved item has an analysis whose isQualitySufficient is true; a
\* pending item has one whose isQualitySufficient is not true.
C6_ApprovedHasSufficientQuality ==
    \A i \in ItemIndices :
        LET item == capturedItems[i] IN
        /\ item.status \in {"approved", "pending"}
        /\ item.status = "approved" =>
               /\ item.analysis # Null
               /\ item.analysis.hasFields
               /\ item.analysis.isQualitySufficient = TRUE
        /\ item.status = "pending" =>
               ~(item.analysis.hasFields /\ item.analysis.isQualitySufficient = TRUE)

C6_Witness ==
    /\ \E i \in ItemIndices : capturedItems[i].status = "approved"
    /\ \E i \in ItemIndices : capturedItems[i].status = "pending"

\* C7: each goal's count is its initial value plus the number of committed
\* items the classification rule assigns to it.
C7_GoalsReplayItems ==
    /\ goals.g2 = G2Initial
           + Cardinality({i \in ItemIndices : NamesRust(capturedItems[i].analysis)})
    /\ goals.g1 = G1Initial
           + Cardinality({i \in ItemIndices : ~NamesRust(capturedItems[i].analysis)})

\* the scanner is stopped: guidance is off, a capture is taken, or the view
\* is gone
ScannerStopped == ~isGuidanceActive \/ capturedImage # 0 \/ ~Mounted

\* C8: once the scanner is stopped, and for as long as it stays stopped, the
\* published hint set does not change.
C8_NoPublishAfterStop ==
    [][(ScannerStopped /\ ScannerStopped') => guidanceMessages' = guidanceMessages]_vars

\* C9: at no time are two chat requests outstanding.
C9_OneOutstandingRequest == Cardinality(chatReqs) <= 1

\* C10: every user message in the log is the last entry or is immediately
\* followed by the reply to it.
C10_UserThenItsReply ==
    \A i \in 1..Len(messages) :
        messages[i].sender = "user" =>
            \/ i = Len(messages)
            \/ /\ messages[i + 1].sender = "ai"
               /\ messages[i + 1].turn = messages[i].turn

\* the positions of a handler run that is not over
RunningPhases == {"key", "submit", "wait", "poll"}

\* C11: once the component that started a job is torn down, the run makes no
\* further poll call and delivers neither a result nor an error.
C11_CancelledRunStops ==
    [][\A id \in JobIds :
          (jobs[id].phase \in RunningPhases /\ ~jobs[id].live) =>
              /\ jobs'[id].polls = jobs[id].polls
              /\ jobs'[id].phase \notin {"result", "error"}]_vars

\* C12: a run submits exactly once, makes one poll call for each handle it
\* has received with done false and none after a handle with done true;
\* when the submitted handle and the answers of two polls are not done and
\* the answer of the third is done with a video, the run has made 1 submit
\* and 3 polls and returns that video.
C12_SubmitOncePollWhileNotDone ==
    \A id \in JobIds :
        LET j == jobs[id] IN
        /\ j.phase \in {"unused", "key"} => j.submits = 0 /\ j.polls = 0
        /\ j.phase \notin {"unused", "key"} => j.submits = 1
        /\ j.phase = "wait" => j.polls = j.notDone - 1
        /\ j.phase = "poll" => j.polls = j.notDone
        /\ j.phase \in {"result", "noresult"} => j.polls = j.notDone
        /\ (j.phase = "result" /\ j.notDone = 3) => (j.submits = 1 /\ j.polls = 3)

C12_Witness ==
    \E id \in JobIds :
        /\ jobs[id].phase = "result"
        /\ jobs[id].notDone = 3
        /\ jobs[id].polls = 3
        /\ jobs[id].submits = 1

\* C13: a run whose submit or poll call threw has thrown to its caller, and
\* has made no poll call after the one that threw.
C13_ErrorRethrownNoMorePolls ==
    \A id \in JobIds :
        jobs[id].failed =>
            /\ jobs[id].phase = "error"
            /\ jobs[id].polls = jobs[id].notDone

C13_Witness ==
    \E id \in JobIds :
        /\ jobs[id].failed
        /\ jobs[id].phase = "error"
        /\ jobs[id].polls >= 1

\* C14: every run that ended with an error has reported the failure to the
\* user, whichever of the two handlers started it.
C14_FailureReported ==
    \A id \in JobIds : jobs[id].phase = "error" => jobs[id].alerted

\* a call of handleSave made while capturedImage or analysis is null returns
CalledSaveWithoutAnalysis == ~saveNoAnalysis /\ saveNoAnalysis'

\* C15 as stated: a save called while the session has no analysis is
\* rejected with an error the caller observes, and commits nothing.
C15_SaveWithoutAnalysisRejected ==
    [][CalledSaveWithoutAnalysis =>
          /\ errorRaised'
          /\ capturedItems' = capturedItems
          /\ goals' = goals]_vars

\* C15, amended: a save called while the session has no analysis is
\* ignored: it raises nothing, commits nothing and leaves the session as
\* it is.
C15_SaveWithoutAnalysisIgnored ==
    [][CalledSaveWithoutAnalysis =>
          /\ capturedImage = 0 \/ analysis = Null
          /\ errorRaised' = errorRaised
          /\ capturedItems' = capturedItems
          /\ goals' = goals
          /\ UNCHANGED <<capturedImage, analysis, annotatedImage, isAnalyzing,
                         isAugmenting, isGuidanceActive>>]_vars

C15_Witness ==
    /\ saveNoAnalysis
    /\ capturedImage # 0
    /\ analysis = Null
    /\ capturedItems = <<>>
    /\ ~errorRaised

\* C16: a save from Analyzed appends exactly one item, whose status is
\* approved exactly when its analysis has sufficient quality, and disposes
\* the session: image, analysis and overlay cleared, guidance off.
C16_SaveCommitsOnceThenDisposes ==
    [][capturedItems' # capturedItems =>
          /\ capturedItems' = Append(capturedItems, NewItem)
          /\ NewItem.status = "approved" <=>
                 (analysis.hasFields /\ analysis.isQualitySufficient)
          /\ capturedImage' = 0
          /\ analysis' = Null
          /\ annotatedImage' = 0
          /\ ~isGuidanceActive'
          /\ ~isAnalyzing']_vars

\* the session holds the outcome of an analysis call that threw
HoldsFailedAnalysis ==
    /\ capturedImage # 0
    /\ analysis # Null
    /\ outcomeOf[capturedImage] = "failed"

\* C17 as stated: a session whose analysis call threw holds the fallback
\* result, and every session that starts an analysis eventually holds a
\* result.
C17_AnalyzeReachesAnalyzed ==
    /\ [](HoldsFailedAnalysis => analysis = FallbackResult)
    /\ (isAnalyzing ~> (~isAnalyzing /\ analysis # Null))

\* C17, amended: a session whose analysis call threw holds the fallback
\* result, and every session that starts an analysis eventually holds a
\* result unless the capture view is unmounted first.
C17_AnalyzeReachesAnalyzedOrUnmounts ==
    /\ [](HoldsFailedAnalysis => analysis = FallbackResult)
    /\ (isAnalyzing ~> ((~isAnalyzing /\ analysis # Null) \/ ~Mounted))

C17_Witness ==
    /\ HoldsFailedAnalysis
    /\ ~isAnalyzing
    /\ analysis = FallbackResult

\* the reply appended by the step, when the step appends one
AppendedReply == messages'[Len(messages')]

\* C18: the step in which a chat call is seen to have thrown appends the
\* fallback text as the reply of the AI and clears isTyping; and whenever a
\* reply is awaited, isTyping is eventually false.
C18_ChatFailureFallbackAndProgress ==
    /\ [][chatFailed' # chatFailed =>
            /\ Len(messages') = Len(messages) + 1
            /\ AppendedReply.sender = "ai"
            /\ AppendedReply.text = StrInterrupted
            /\ AppendedReply.turn \in chatFailed' \ chatFailed
            /\ ~isTyping']_vars
    /\ (isTyping ~> ~isTyping)

C18_Witness ==
    /\ chatFailed # {}
    /\ ~isTyping
    /\ messages[Len(messages)].sender = "ai"
    /\ messages[Len(messages)].text = StrInterrupted

\* the session is disposed: a held image is cleared
Disposed == capturedImage # 0 /\ capturedImage' = 0

\* C19: while a captured image is held, guidance is off and no tick is
\* scheduled; the same holds right after every disposal; a tick is only
\* scheduled while guidance is on and no image is held.
C19_GuidanceOnlyWhileLive ==
    /\ [](capturedImage # 0 => ~isGuidanceActive /\ ~intervalActive)
    /\ [](intervalActive => isGuidanceActive /\ capturedImage = 0 /\ Mounted)
    /\ [][Disposed => ~isGuidanceActive' /\ ~intervalActive']_vars

C19_Witness ==
    /\ capturedImage # 0
    /\ nScans > 0
    /\ ~isGuidanceActive
    /\ ~intervalActive

\* C20: the step that switches guidance on starts a scan and schedules the
\* ticks; a scan is started only in a step after which guidance is on with
\* its ticks scheduled; the step that switches guidance off starts no scan
\* and leaves no tick scheduled.
C20_ScanOnStartAndPerTick ==
    [][/\ (~isGuidanceActive /\ isGuidanceActive') =>
              (nScans' = nScans + 1 /\ intervalActive')
       /\ nScans' # nScans =>
              /\ nScans' = nScans + 1
              /\ isGuidanceActive' /\ intervalActive'
              /\ capturedImage' = 0 /\ currentRole' = "FIELD"
       /\ (isGuidanceActive /\ ~isGuidanceActive') =>
              (nScans' = nScans /\ ~intervalActive')]_vars

C20_Witness ==
    /\ isGuidanceActive
    /\ intervalActive
    /\ nScans = MaxScans

\* the scanner is active: guidance is on for a mounted view holding no image
ScannerActive == isGuidanceActive /\ capturedImage = 0 /\ Mounted

\* a guidance call returns to a mounted view in this step (the calls of a
\* view that unmounts leave scanReqs together)
ScanArrives ==
    /\ scanReqs' # scanReqs /\ scanReqs' \subseteq scanReqs
    /\ currentRole' = currentRole

\* C21: a tick starts a scan whether or not another is in flight; every scan
\* that arrives publishes its result, whatever the order of arrival; while
\* the scanner is active nothing else changes the published hints, so they
\* are the result of the scan that arrived last, or empty when none has
\* arrived since they were cleared.
C21_LastArrivalWins ==
    /\ [](lastArrived # Null => guidanceMessages = GetPreCaptureGuidance(lastArrived))
    /\ [](lastArrived = Null => guidanceMessages = <<>>)
    /\ [][ScanArrives =>
            /\ Cardinality(scanReqs') = Cardinality(scanReqs) - 1
            /\ lastArrived' # Null
            /\ guidanceMessages' = GetPreCaptureGuidance(lastArrived')]_vars
    /\ [][(ScannerActive /\ ScannerActive' /\ guidanceMessages' # guidanceMessages)
            => ScanArrives]_vars
    /\ [][(intervalActive /\ intervalActive' /\ nScans' = nScans + 1)
            => scanReqs' = scanReqs \cup {nScans'}]_vars

\* the scan started second has arrived while the scan started first is
\* still in flight, with the scanner active
C21_Witness ==
    /\ ScannerActive
    /\ nScans = 2
    /\ scanReqs = {1}
    /\ lastArrived # Null

\* C25: in the step in which a guidance call is seen to have thrown, the
\* published hints become the single sentinel and nothing else changes but
\* the set of calls in flight: no error is raised, guidance and its ticks
\* stay as they are, and the view still holds no image.
C25_GuidanceFailurePublishesSentinel ==
    /\ [](lastArrived = [throws |-> TRUE] => guidanceMessages = StrGuidanceUnavailable)
    /\ [][(ScanArrives /\ lastArrived' = [throws |-> TRUE]) =>
            /\ guidanceMessages' = StrGuidanceUnavailable
            /\ Len(guidanceMessages') = 1
            /\ UNCHANGED <<errorRaised, isGuidanceActive, intervalActive,
                           capturedImage, currentRole, nScans>>]_vars

C25_Witness ==
    /\ lastArrived = [throws |-> TRUE]
    /\ guidanceMessages = StrGuidanceUnavailable
    /\ ScannerActive
    /\ intervalActive
    /\ ~errorRaised

\* the items with status approved, and those with status pending
ApprovedItems == {i \in ItemIndices : capturedItems[i].status = "approved"}
PendingItems == {i \in ItemIndices : capturedItems[i].status = "pending"}

\* q is an integer nearest to 100 * k / n
NearestPercent(q, k, n) ==
    LET diff == 100 * k - n * q IN
    2 * (IF diff < 0 THEN 0 - diff ELSE diff) <= n

\* C22: while the Data Lab is shown, its quality percentage is 0 for an
\* empty store and otherwise an integer nearest to 100 * approved / total
\* (67 for 2 approved of 3), and its pending count is the number of items
\* with status pending.
C22_AggregateFigures ==
    DataMounted =>
        /\ capturedItems = <<>> =>
               (stats.qualityPercentage = 0 /\ stats.pendingCount = 0)
        /\ capturedItems # <<>> =>
               NearestPercent(stats.qualityPercentage, Cardinality(ApprovedItems),
                              Len(capturedItems))
        /\ (Len(capturedItems) = 3 /\ Cardinality(ApprovedItems) = 2) =>
               stats.qualityPercentage = 67
        /\ stats.pendingCount = Cardinality(PendingItems)

C22_Witness ==
    /\ DataMounted
    /\ Len(capturedItems) = 3
    /\ Cardinality(ApprovedItems) = 2
    /\ stats.qualityPercentage = 67
    /\ stats.pendingCount = 1

\* C23: every step that changes the item list appends one item at its end
\* and leaves the items already there as they were, in their order.
C23_ItemsAppendOnly ==
    [][capturedItems' # capturedItems =>
          /\ Len(capturedItems') = Len(capturedItems) + 1
          /\ \A i \in ItemIndices : capturedItems'[i] = capturedItems[i]]_vars

\* two commits, then the overlay of a disposed session arrives
C23_Witness ==
    /\ Len(capturedItems) = 2
    /\ capturedItems[1].imageUrl # capturedItems[2].imageUrl
    /\ capturedImage = 0
    /\ annotatedImage # 0

\* the step is a discard
Discards == ~discarded /\ discarded'

\* C24: a discard disposes the session and leaves the item list and both
\* goals as they were.
C24_DiscardCommitsNothing ==
    [][Discards =>
          /\ capturedImage # 0 /\ analysis # Null
          /\ capturedImage' = 0 /\ analysis' = Null /\ annotatedImage' = 0
          /\ capturedItems' = capturedItems
          /\ goals' = goals]_vars

\* a discard after one commit
C24_Witness ==
    /\ discarded
    /\ capturedImage = 0
    /\ Len(capturedItems) = 1
    /\ nCaptures = 2

\* C26: the step in which a run ends without a video and without an error
\* ends it with null, calls no alert, and leaves both stored URLs as they
\* were; and a run that ended without a call throwing did not end in error.
C26_NoResultIsNullUrlUnchanged ==
    /\ [](\A id \in JobIds :
             (jobs[id].phase \in {"result", "noresult", "error"} /\ ~jobs[id].failed)
                 => jobs[id].phase \in {"result", "noresult"} /\ ~jobs[id].alerted)
    /\ [][\A id \in JobIds :
             (jobs[id].phase \in RunningPhases /\ jobs'[id].phase = "noresult") =>
                 /\ generatedVideoUrl' = generatedVideoUrl
                 /\ dashboardVideoUrl' = dashboardVideoUrl
                 /\ ~jobs'[id].failed]_vars

\* a run has ended with null while a video of the same view is stored
C26_Witness ==
    \E id \in JobIds :
        /\ jobs[id].phase = "noresult"
        /\ jobs[id].flow = "dash"
        /\ dashboardVideoUrl # 0

\* C27: the held overlay is null or made from the held image (so null while
\* no image is held), and no item carries an overlay made from another image.
C27_OverlayOfHeldImage ==
    /\ annotatedImage # 0 => annotatedImage = capturedImage
    /\ \A i \in ItemIndices :
           capturedItems[i].annotatedImageUrl \in {0, capturedItems[i].imageUrl}

\* C28: isTyping is true exactly while a chat request is outstanding.
C28_TypingIffOutstanding == isTyping <=> chatReqs # {}

\* C29: every analysis a session holds, and every analysis of a committed
\* item, has a defectType and an isQualitySufficient.
C29_AnalysisWellFormed ==
    /\ analysis # Null => analysis.hasFields
    /\ \A i \in ItemIndices : capturedItems[i].analysis.hasFields

\* the runs of a mounted view's handler of flow that are submitted or polling
InFlight(flow) ==
    {id \in JobIds : /\ jobs[id].flow = flow
                     /\ jobs[id].live
                     /\ jobs[id].phase \in {"submit", "wait", "poll"}}

\* C30: for each view at most one job is submitted or polling, and the
\* view's generating flag is true exactly while one is.
C30_OneJobPerView ==
    /\ Cardinality(InFlight("view")) <= 1
    /\ Cardinality(InFlight("dash")) <= 1
    /\ isVideoGenerating <=> InFlight("view") # {}
    /\ isDashboardVideoGenerating <=> InFlight("dash") # {}

=============================================================================
